---- MODULE Spec2Model ----
(***************************************************************************)
(* Model of src/qs_extract_ccna.py: clean_text, extract_quiz_data,         *)
(* validate_questions and main.                                            *)
(*                                                                         *)
(* A text is a sequence of one-character strings; a character reference    *)
(* that html.unescape decodes ("&nbsp;", "&amp;") is one token of the      *)
(* sequence.  A parsed document is a tree of nodes                         *)
(*   [name, style, class, text, kids]                                      *)
(* where name "#text" is a string node (text holds its characters) and     *)
(* every other name is a tag.  A node is addressed by its path, the        *)
(* sequence of child positions from the document root <<>>.                *)
(***************************************************************************)
EXTENDS Integers, Sequences, FiniteSets, TLC

\* ------------------------------------------------------------------ text

\* What Python's \s and str.strip() treat as whitespace, among the tokens used.
Whitespace == {" ", "\n", "\t", "U+00A0"}

Digits == {"0", "1", "2", "3", "4", "5", "6", "7", "8", "9"}

DigitVal(c) ==
    CASE c = "0" -> 0 [] c = "1" -> 1 [] c = "2" -> 2 [] c = "3" -> 3
      [] c = "4" -> 4 [] c = "5" -> 5 [] c = "6" -> 6 [] c = "7" -> 7
      [] c = "8" -> 8 [] c = "9" -> 9

\* str.lower() on one character.
LowerChar(c) ==
    CASE c = "M" -> "m" [] c = "Q" -> "q" [] c = "R" -> "r" [] c = "U" -> "u"
      [] c = "E" -> "e" [] c = "N" -> "n" [] c = "S" -> "s"
      [] OTHER -> c

Lower(s) == [k \in 1..Len(s) |-> LowerChar(s[k])]

\* html.unescape on one token: a character reference becomes its character.
UnescapeChar(c) ==
    CASE c = "&nbsp;" -> "U+00A0" [] c = "&amp;" -> "&" [] c = "&lt;" -> "<"
      [] OTHER -> c

Unescape(s) == [k \in 1..Len(s) |-> UnescapeChar(s[k])]

RECURSIVE LStrip(_)
LStrip(s) == IF s # <<>> /\ Head(s) \in Whitespace THEN LStrip(Tail(s)) ELSE s

RECURSIVE RStrip(_)
RStrip(s) ==
    IF s # <<>> /\ s[Len(s)] \in Whitespace THEN RStrip(SubSeq(s, 1, Len(s) - 1)) ELSE s

\* str.strip()
Strip(s) == RStrip(LStrip(s))

\* re.sub(r'\s+', ' ', text): every maximal run of whitespace becomes one space.
RECURSIVE CollapseWs(_)
CollapseWs(s) ==
    IF s = <<>> THEN <<>>
    ELSE IF Head(s) \in Whitespace
         THEN <<" ">> \o CollapseWs(LStrip(s))
         ELSE <<Head(s)>> \o CollapseWs(Tail(s))

clean_text(text) ==
    IF text = <<>> THEN <<>> ELSE Strip(CollapseWs(Unescape(text)))

\* Number of leading decimal digits of s.
RECURSIVE LeadingDigits(_)
LeadingDigits(s) ==
    IF s # <<>> /\ Head(s) \in Digits THEN 1 + LeadingDigits(Tail(s)) ELSE 0

\* question_pattern.match(t), question_pattern = re.compile(r'^\d+\.\s+')
question_pattern(t) ==
    LET d == LeadingDigits(t)
    IN  d >= 1 /\ Len(t) >= d + 2 /\ t[d + 1] = "." /\ t[d + 2] \in Whitespace

\* re.match(r'^(\d+)\.', t) is not None
number_match(t) ==
    LET d == LeadingDigits(t) IN d >= 1 /\ Len(t) >= d + 1 /\ t[d + 1] = "."

\* int() of a digit sequence
RECURSIVE IntOf(_)
IntOf(ds) ==
    IF ds = <<>> THEN 0 ELSE 10 * IntOf(SubSeq(ds, 1, Len(ds) - 1)) + DigitVal(ds[Len(ds)])

\* int(match.group(1)) for a text that number_match accepts
q_num_of(t) == IntOf(SubSeq(t, 1, LeadingDigits(t)))

\* `needle in hay` for strings
Contains(hay, needle) ==
    \E k \in 0..(Len(hay) - Len(needle)) : SubSeq(hay, k + 1, k + Len(needle)) = needle

\* raw_text.split('\n')
RECURSIVE SplitLines(_)
SplitLines(s) ==
    IF \A k \in 1..Len(s) : s[k] # "\n" THEN <<s>>
    ELSE LET k == CHOOSE j \in 1..Len(s) : s[j] = "\n" /\ \A h \in 1..(j - 1) : s[h] # "\n"
         IN  <<SubSeq(s, 1, k - 1)>> \o SplitLines(SubSeq(s, k + 1, Len(s)))

\* '\n'.join(lines)
RECURSIVE JoinLines(_)
JoinLines(ls) ==
    IF ls = <<>> THEN <<>>
    ELSE IF Len(ls) = 1 THEN ls[1]
    ELSE ls[1] \o <<"\n">> \o JoinLines(Tail(ls))

\* [line.strip() for line in raw_text.split('\n') if line.strip()], joined
pre_text(raw_text) ==
    LET ls  == SplitLines(raw_text)
        st  == [k \in 1..Len(ls) |-> Strip(ls[k])]
    IN  JoinLines(SelectSeq(st, LAMBDA l : l # <<>>))

\* ------------------------------------------------------------ parse tree

\* None: no node (a path never holds 0).
None == <<0>>

Txt(s)              == [name |-> "#text", style |-> "", class |-> {}, text |-> s, kids |-> <<>>]
El(name, kids)      == [name |-> name, style |-> "", class |-> {}, text |-> <<>>, kids |-> kids]
ElS(name, st, kids) == [name |-> name, style |-> st, class |-> {}, text |-> <<>>, kids |-> kids]
ElC(name, cl, kids) == [name |-> name, style |-> "", class |-> cl, text |-> <<>>, kids |-> kids]

RECURSIVE NodeFrom(_, _)
NodeFrom(n, path) == IF path = <<>> THEN n ELSE NodeFrom(n.kids[Head(path)], Tail(path))

\* tag.get_text(): the strings below the node, concatenated in document order.
RECURSIVE TextFrom(_, _)
get_text(n) == IF n.name = "#text" THEN n.text ELSE TextFrom(n, 1)
TextFrom(n, k) ==
    IF k > Len(n.kids) THEN <<>> ELSE get_text(n.kids[k]) \o TextFrom(n, k + 1)

\* Paths of the nodes below n (n at `prefix`), in document order.
RECURSIVE DescFrom(_, _, _)
DescFrom(n, prefix, k) ==
    IF k > Len(n.kids) THEN <<>>
    ELSE <<Append(prefix, k)>> \o DescFrom(n.kids[k], Append(prefix, k), 1)
                               \o DescFrom(n, prefix, k + 1)

\* The style values of the sample documents that contain the text 'color:'.
ColorStyles == {"color: red", "background-color: yellow"}

\* style=lambda x: x and 'color:' in x
has_color(st) == st # "" /\ st \in ColorStyles

\* ------------------------------------------------------ sample documents

\* Texts of the sample documents.
T_Match     == <<"1", ".", " ", "M", "a", "t", "c", "h">>
T_Why       == <<"2", ".", " ", "W", "h", "y", "?">>
T_Refer     == <<" ", "0", "1", ".", "\t", "R", "e", "f", "e", "r", " ", "t", "o", " ", "t", "h", "e", " ", "e", "x", "h", "i", "b", "i", "t", "\n">>
T_Short     == <<"3", ".", " ", "q">>
T_NoSpace   == <<"3", ".", "x">>
T_Presented == <<"4", ".", " ", "Q", "u", "e", "s", "t", "i", "o", "n", " ", "a", "s", " ", "p", "r", "e", "s", "e", "n", "t", "e", "d", ":">>
T_Note      == <<"N", "o", "t", "e">>
T_a         == <<"a">>
T_b         == <<"b">>
T_c         == <<"c">>
T_d         == <<"d">>
T_Blank     == <<" ", "\n">>
T_Entity    == <<"&nbsp;">>
T_BlankPre  == <<"\n", " ", "\n">>
T_Code      == <<" ", "c", "1", " ", "\n", "\n", " ", "c", "2">>
T_Code2     == <<"c", "3">>

\* Top-level nodes a sample document is made of.
N_Strong1  == El("strong", <<Txt(T_Match)>>)
N_B2       == El("b", <<Txt(T_Why)>>)
N_P2       == El("p", <<El("strong", <<Txt(T_Why)>>)>>)
N_PLate1   == El("p", <<Txt(T_Blank), El("strong", <<Txt(T_Note)>>), El("b", <<Txt(T_Refer)>>)>>)
N_P3       == El("p", <<El("b", <<Txt(T_Short)>>), El("img", <<>>)>>)
N_PPlain   == El("p", <<El("strong", <<Txt(T_NoSpace)>>)>>)
N_Div4     == El("div", <<El("strong", <<Txt(T_Presented)>>)>>)
N_Img      == El("img", <<>>)
N_UlOne    == El("ul", <<El("li", <<Txt(T_a)>>),
                         El("li", <<ElS("span", "color: red", <<Txt(T_b)>>)>>),
                         El("li", <<ElS("span", "color: red", <<Txt(T_Blank)>>)>>)>>)
N_UlTwo    == El("ul", <<ElC("li", {"correct_answer"}, <<Txt(T_a)>>),
                         El("li", <<ElS("strong", "background-color: yellow", <<Txt(T_c)>>)>>),
                         El("li", <<ElS("b", "color: red", <<Txt(T_d)>>)>>)>>)
N_UlEmpty  == El("ul", <<El("li", <<Txt(T_Blank)>>), El("li", <<Txt(T_Entity)>>)>>)
N_UlNone   == El("ul", <<El("li", <<Txt(T_a)>>),
                         El("li", <<ElS("span", "font-weight: bold", <<Txt(T_b)>>)>>)>>)
N_PreBlank == El("pre", <<Txt(T_BlankPre)>>)
N_PreCode  == El("pre", <<Txt(T_Code)>>)
N_PreCode2 == El("pre", <<Txt(T_Code2)>>)

NodePool ==
    { N_Strong1, N_B2, N_P2, N_PLate1, N_P3, N_PPlain, N_Div4, N_Img,
      N_UlOne, N_UlTwo, N_UlEmpty, N_UlNone, N_PreBlank, N_PreCode, N_PreCode2 }

\* Largest number of top-level nodes of a sample document.
MaxNodes == 3

Docs == UNION { [1..n -> NodePool] : n \in 0..MaxNodes }

\* ------------------------------------------------------------ the program

VARIABLES
    doc,                \* the parsed input document: its top-level nodes
    pc,                 \* where the run is
    argc,               \* len(sys.argv)
    exists,             \* html_file_path.exists()
    was_read,           \* the input file was read
    written,            \* the JSON output file was written
    exit_code,          \* the process's exit code, -1 while it runs
    pos,                \* position of the discovery loops in their find_all result
    seen_questions,
    question_elements,
    i,
    current_element,
    choices,
    correct_answers,
    pre_content,
    questions,
    visited,            \* history: the nodes the current scan has examined, in order
    no_choices          \* history: the numbers of the questions whose scan gave no choice

vars == <<doc, pc, argc, exists, was_read, written, exit_code, pos, seen_questions,
          question_elements, i, current_element, choices, correct_answers,
          pre_content, questions, visited, no_choices>>

mainVars    == <<argc, exists, was_read, written, exit_code>>
findVars    == <<pos, seen_questions, question_elements>>
scanVars    == <<current_element, choices, correct_answers, pre_content, visited>>

Root == El("[document]", doc)

Node(path) == NodeFrom(Root, path)

\* The tags below n (n at `prefix`) with one of the names, in document order,
\* from child k on.
RECURSIVE FindFrom(_, _, _, _)
FindFrom(n, prefix, k, names) ==
    IF k > Len(n.kids) THEN <<>>
    ELSE (IF n.kids[k].name \in names THEN <<Append(prefix, k)>> ELSE <<>>)
         \o FindFrom(n.kids[k], Append(prefix, k), 1, names)
         \o FindFrom(n, prefix, k + 1, names)

\* tag.find_all(names): the tags below `path` with one of the names, in document order.
find_all(path, names) == FindFrom(Node(path), path, 1, names)

\* tag.find(name): the first of them, or None.
find(path, names) ==
    LET all == find_all(path, names) IN IF all = <<>> THEN None ELSE all[1]

\* tag.find('strong') or tag.find('b'): a Tag is always true.
find_strong_or_b(path) ==
    IF find(path, {"strong"}) # None THEN find(path, {"strong"}) ELSE find(path, {"b"})

\* tag.find_next_sibling(): the next sibling that is a tag, or None.
find_next_sibling(path) ==
    IF path = <<>> THEN None
    ELSE LET par  == SubSeq(path, 1, Len(path) - 1)
             sibs == Node(par).kids
             own  == path[Len(path)]
             next == { k \in (own + 1)..Len(sibs) : sibs[k].name # "#text" }
         IN  IF next = {} THEN None
             ELSE Append(par, CHOOSE k \in next : \A h \in next : k <= h)

\* tag.get_text().strip()
tag_text(path) == Strip(get_text(Node(path)))

\* The text is that of a question: question_pattern matches and the number parses.
is_question_text(t) == question_pattern(t) /\ number_match(t)

\* Faulty variant: the tag met last replaces an earlier one with its number.
retain_last(found, tag) ==
    LET n == q_num_of(tag_text(tag))
    IN  [seen  |-> found.seen \cup {n},
         elems |-> Append(SelectSeq(found.elems, LAMBDA e : q_num_of(tag_text(e)) # n), tag)]

\* Keeping a discovered tag (lines 75-77 and 88-90): only a number not seen yet.
retain(found, tag) ==
    LET n == q_num_of(tag_text(tag))
    IN  IF n \notin found.seen
        THEN [seen |-> found.seen \cup {n}, elems |-> Append(found.elems, tag)]
        ELSE found

\* get_question_number(tag)
get_question_number(tag) ==
    LET text == tag_text(tag) IN IF number_match(text) THEN q_num_of(text) ELSE 0

\* list.sort(key=get_question_number): a stable sort, here by insertion.
RECURSIVE InsertByNumber(_, _)
InsertByNumber(sorted, tag) ==
    IF sorted = <<>> THEN <<tag>>
    ELSE IF get_question_number(sorted[Len(sorted)]) <= get_question_number(tag)
         THEN Append(sorted, tag)
         ELSE Append(InsertByNumber(SubSeq(sorted, 1, Len(sorted) - 1), tag),
                     sorted[Len(sorted)])

RECURSIVE SortFrom(_, _, _)
SortFrom(elems, k, sorted) ==
    IF k > Len(elems) THEN sorted
    ELSE SortFrom(elems, k + 1, InsertByNumber(sorted, elems[k]))

\* Faulty variant: the elements are left in discovery order.
unsorted(elems) == elems

sort_by_number(elems) == SortFrom(elems, 1, <<>>)

\* ------------------------------------------------------- per-question scan

\* The keywords of line 192.
Keywords ==
    { <<"m", "a", "t", "c", "h">>,
      <<"q", "u", "e", "s", "t", "i", "o", "n", " ", "a", "s", " ", "p", "r", "e", "s", "e", "n", "t", "e", "d">>,
      <<"r", "e", "f", "e", "r", " ", "t", "o", " ", "t", "h", "e", " ", "e", "x", "h", "i", "b", "i", "t">> }

S_Unknown  == <<"U", "n", "k", "n", "o", "w", "n">>
S_SeeImage == <<"S", "e", "e", " ", "i", "m", "a", "g", "e", " ", "f", "o", "r", " ", "t", "h", "e", " ", "a", "n", "s", "w", "e", "r">>

\* Faulty variant: the text is not lower-cased before the search.
is_special_any_case(question_text) ==
    \E kw \in Keywords : Contains(question_text, kw)

\* any(keyword in question_text_lower for keyword in [...])
is_special(question_text) ==
    \E kw \in Keywords : Contains(Lower(question_text), kw)

\* Where the scan of question_tag starts (lines 117-122).
scan_start(question_tag) ==
    IF find_next_sibling(question_tag) # None
    THEN find_next_sibling(question_tag)
    ELSE find_next_sibling(SubSeq(question_tag, 1, Len(question_tag) - 1))

\* li.find(['span', 'strong'], style=...) found a tag, or the li has the class.
is_correct(li) ==
    LET below == DescFrom(Node(li), li, 1)
    IN  \/ \E k \in 1..Len(below) :
              /\ Node(below[k]).name \in {"span", "strong"}
              /\ has_color(Node(below[k]).style)
        \/ Node(li).class # {} /\ "correct_answer" \in Node(li).class

\* Faulty variant: a marked item counts as correct even when its text is empty.
RECURSIVE collect_unfiltered(_, _, _)
collect_unfiltered(lis, k, acc) ==
    IF k > Len(lis) THEN acc
    ELSE LET choice_text == clean_text(get_text(Node(lis[k])))
         IN  collect_unfiltered(lis, k + 1,
                 [choices |-> IF choice_text # <<>> THEN Append(acc.choices, choice_text)
                              ELSE acc.choices,
                  correct |-> IF is_correct(lis[k]) THEN Append(acc.correct, choice_text)
                              ELSE acc.correct])

\* The for loop over li_elements (lines 133-146) from item k on.
RECURSIVE collect(_, _, _)
collect(lis, k, acc) ==
    IF k > Len(lis) THEN acc
    ELSE LET choice_text == clean_text(get_text(Node(lis[k])))
         IN  collect(lis, k + 1,
                 IF choice_text # <<>>
                 THEN [choices |-> Append(acc.choices, choice_text),
                       correct |-> IF is_correct(lis[k]) THEN Append(acc.correct, choice_text)
                                   ELSE acc.correct]
                 ELSE acc)

\* Faulty variant: a list without choices does not end the scan.
after_ul_if_choices(got) == IF got = <<>> THEN "scan" ELSE "assemble"

\* What follows a ul (line 148): the scan ends, whatever the list gave.
after_ul(got) == "assemble"

\* Lines 151-156: the paragraph's first strong, else first b, matches the pattern.
is_new_question(par) ==
    /\ find_strong_or_b(par) # None
    /\ question_pattern(tag_text(find_strong_or_b(par)))

\* Truth value of pre_content: None and '' are false.
truthy(pre) == pre.set /\ pre.val # <<>>

\* Lines 159-164.
capture_pre(pre, node) ==
    IF ~truthy(pre) THEN [set |-> TRUE, val |-> pre_text(get_text(Node(node)))] ELSE pre

\* Faulty variant: several correct answers give the first one alone.
answer_first_only(correct) ==
    IF Len(correct) >= 1 THEN [kind |-> "str", val |-> correct[1]]
    ELSE [kind |-> "str", val |-> S_Unknown]

\* Lines 180-186.
answer_of(correct) ==
    IF Len(correct) = 1 THEN [kind |-> "str", val |-> correct[1]]
    ELSE IF Len(correct) > 1 THEN [kind |-> "list", val |-> correct]
    ELSE [kind |-> "str", val |-> S_Unknown]

\* question_data before the choices are looked at (lines 110-113, 172-173).
question_base(question_tag, pre) ==
    LET base == [question |-> clean_text(get_text(Node(question_tag)))]
    IN  IF truthy(pre) THEN base @@ [pre |-> pre.val] ELSE base

\* ------------------------------------------------------ validate_questions

get(question, key, default) == IF key \in DOMAIN question THEN question[key] ELSE default

NoAnswer == [kind |-> "none", val |-> <<>>]

\* is_valid_url(url): a scheme and a network location
is_valid_url(url) == url.scheme # <<>> /\ url.netloc # <<>>

InSeq(x, seq) == \E k \in 1..Len(seq) : seq[k] = x

\* question_errors of one question (lines 221-255).
question_errors(question) ==
    LET answer   == get(question, "answer", NoAnswer)
        chs      == get(question, "choices", <<>>)
        qtype    == get(question, "type", "regular")
        noAnswer == answer.kind = "none" \/ answer.val = <<>>
        unknown  == answer.kind = "str" /\ answer.val = S_Unknown
        missing  == SelectSeq(answer.val, LAMBDA ans : ~InSeq(ans, chs))
    IN  (IF "question" \notin DOMAIN question THEN <<"Missing 'question' field">>
         ELSE IF Len(Strip(question.question)) <= 5 THEN <<"Question too short">>
         ELSE <<>>)
        \o
        (IF Len(chs) > 0
         THEN (IF noAnswer THEN <<"Has choices but no answer key">>
               ELSE IF unknown THEN <<"Answer is 'Unknown'">>
               ELSE <<>>)
              \o
              (IF ~noAnswer /\ ~unknown /\ qtype # "special"
               THEN IF answer.kind = "list"
                    THEN [k \in 1..Len(missing) |-> "Answer not in choices"]
                    ELSE IF ~InSeq(answer.val, chs) THEN <<"Answer not in choices">>
                    ELSE <<>>
               ELSE <<>>)
         ELSE <<>>)
        \o
        (IF "img" \in DOMAIN question /\ ~is_valid_url(question.img)
         THEN <<"Invalid image URL">> ELSE <<>>)

\* errors: one entry per question that has question_errors (lines 257-259).
errors_of(qs) == SelectSeq(qs, LAMBDA q : question_errors(q) # <<>>)

\* return len(errors) == 0
validate_questions(qs) == Len(errors_of(qs)) = 0

\* Faulty variant: validation findings do not change the exit code.
exit_always_zero(success) == 0

\* Lines 326-330: the exit code main ends with after validation.
exit_after_validation(success) == IF success THEN 0 ELSE 1

\* ----------------------------------------------------------------- actions

NoPre == [set |-> FALSE, val |-> <<>>]

Init ==
    /\ doc \in Docs
    /\ pc = "main"
    /\ argc = 0
    /\ exists = FALSE
    /\ was_read = FALSE
    /\ written = FALSE
    /\ exit_code = -1
    /\ pos = 1
    /\ seen_questions = {}
    /\ question_elements = <<>>
    /\ i = 1
    /\ current_element = None
    /\ choices = <<>>
    /\ correct_answers = <<>>
    /\ pre_content = NoPre
    /\ questions = <<>>
    /\ visited = <<>>
    /\ no_choices = {}

extractVars == <<pos, seen_questions, question_elements, i, current_element, choices,
                 correct_answers, pre_content, questions, visited, no_choices>>

\* sys.exit(1)
Exit1 == pc' = "exit" /\ exit_code' = 1

\* main, lines 279-281: the argument count is wrong.
UsageExit ==
    /\ pc = "main"
    /\ \E n \in {1, 3} : argc' = n
    /\ Exit1
    /\ UNCHANGED <<doc, exists, was_read, written, extractVars>>

ArgsOk ==
    /\ pc = "main"
    /\ argc' = 2
    /\ pc' = "exists"
    /\ UNCHANGED <<doc, exists, was_read, written, exit_code, extractVars>>

\* Lines 285-287.
MissingFile ==
    /\ pc = "exists"
    /\ exists' = FALSE
    /\ Exit1
    /\ UNCHANGED <<doc, argc, was_read, written, extractVars>>

FileExists ==
    /\ pc = "exists"
    /\ exists' = TRUE
    /\ pc' = "read"
    /\ UNCHANGED <<doc, argc, was_read, written, exit_code, extractVars>>

\* Lines 290-295.
ReadFails ==
    /\ pc = "read"
    /\ Exit1
    /\ UNCHANGED <<doc, argc, exists, was_read, written, extractVars>>

ReadOk ==
    /\ pc = "read"
    /\ was_read' = TRUE
    /\ pc' = "passA"
    /\ pos' = 1
    /\ UNCHANGED <<doc, no_choices, argc, exists, written, exit_code, seen_questions,
                   question_elements, i, scanVars, questions>>

\* Lines 68-77: one iteration over soup.find_all(['strong', 'b']).
PassA ==
    /\ pc = "passA"
    /\ pos <= Len(find_all(<<>>, {"strong", "b"}))
    /\ LET tag   == find_all(<<>>, {"strong", "b"})[pos]
           found == [seen |-> seen_questions, elems |-> question_elements]
           kept  == IF is_question_text(tag_text(tag)) THEN retain(found, tag) ELSE found
       IN  /\ seen_questions' = kept.seen
           /\ question_elements' = kept.elems
    /\ pos' = pos + 1
    /\ UNCHANGED <<doc, no_choices, pc, mainVars, i, scanVars, questions>>

PassADone ==
    /\ pc = "passA"
    /\ pos > Len(find_all(<<>>, {"strong", "b"}))
    /\ pc' = "passB"
    /\ pos' = 1
    /\ UNCHANGED <<doc, no_choices, mainVars, seen_questions, question_elements, i, scanVars, questions>>

\* Lines 80-90: one iteration over soup.find_all('p').
PassB ==
    /\ pc = "passB"
    /\ pos <= Len(find_all(<<>>, {"p"}))
    /\ LET strong_tag == find_strong_or_b(find_all(<<>>, {"p"})[pos])
           found      == [seen |-> seen_questions, elems |-> question_elements]
           kept       == IF strong_tag # None /\ is_question_text(tag_text(strong_tag))
                         THEN retain(found, strong_tag) ELSE found
       IN  /\ seen_questions' = kept.seen
           /\ question_elements' = kept.elems
    /\ pos' = pos + 1
    /\ UNCHANGED <<doc, no_choices, pc, mainVars, i, scanVars, questions>>

\* Line 98, then the loop of line 104 begins.
SortElements ==
    /\ pc = "passB"
    /\ pos > Len(find_all(<<>>, {"p"}))
    /\ question_elements' = sort_by_number(question_elements)
    /\ i' = 1
    /\ pc' = "loop"
    /\ UNCHANGED <<doc, no_choices, mainVars, pos, seen_questions, scanVars, questions>>

\* Lines 104-126: the next question's scan is set up.
StartQuestion ==
    /\ pc = "loop"
    /\ i <= Len(question_elements)
    /\ current_element' = scan_start(question_elements[i])
    /\ choices' = <<>>
    /\ correct_answers' = <<>>
    /\ pre_content' = NoPre
    /\ visited' = <<>>
    /\ pc' = "scan"
    /\ UNCHANGED <<doc, no_choices, mainVars, findVars, i, questions>>

\* Lines 129-148: a ul.
ScanUl ==
    /\ pc = "scan"
    /\ current_element # None
    /\ Node(current_element).name = "ul"
    /\ LET got == collect(find_all(current_element, {"li"}), 1,
                          [choices |-> choices, correct |-> correct_answers])
       IN  /\ choices' = got.choices
           /\ correct_answers' = got.correct
           /\ pc' = after_ul(got.choices)
           /\ current_element' = IF after_ul(got.choices) = "scan"
                                 THEN find_next_sibling(current_element)
                                 ELSE current_element
    /\ visited' = Append(visited, current_element)
    /\ UNCHANGED <<doc, no_choices, mainVars, findVars, i, pre_content, questions>>

\* Lines 149-156: a p that starts the next question.
ScanNewQuestion ==
    /\ pc = "scan"
    /\ current_element # None
    /\ Node(current_element).name = "p"
    /\ is_new_question(current_element)
    /\ pc' = "assemble"
    /\ visited' = Append(visited, current_element)
    /\ UNCHANGED <<doc, no_choices, mainVars, findVars, i, current_element, choices, correct_answers,
                   pre_content, questions>>

\* Lines 149-156 and 169: any other p.
ScanParagraph ==
    /\ pc = "scan"
    /\ current_element # None
    /\ Node(current_element).name = "p"
    /\ ~is_new_question(current_element)
    /\ current_element' = find_next_sibling(current_element)
    /\ visited' = Append(visited, current_element)
    /\ UNCHANGED <<doc, no_choices, pc, mainVars, findVars, i, choices, correct_answers,
                   pre_content, questions>>

\* Lines 157-164 and 169: a pre.
ScanPre ==
    /\ pc = "scan"
    /\ current_element # None
    /\ Node(current_element).name = "pre"
    /\ pre_content' = capture_pre(pre_content, current_element)
    /\ current_element' = find_next_sibling(current_element)
    /\ visited' = Append(visited, current_element)
    /\ UNCHANGED <<doc, no_choices, pc, mainVars, findVars, i, choices, correct_answers, questions>>

\* Lines 165-169: every other tag is passed over.
ScanOther ==
    /\ pc = "scan"
    /\ current_element # None
    /\ Node(current_element).name \notin {"ul", "p", "pre"}
    /\ current_element' = find_next_sibling(current_element)
    /\ visited' = Append(visited, current_element)
    /\ UNCHANGED <<doc, no_choices, pc, mainVars, findVars, i, choices, correct_answers,
                   pre_content, questions>>

\* Line 128: no sibling is left.
ScanExhausted ==
    /\ pc = "scan"
    /\ current_element = None
    /\ pc' = "assemble"
    /\ UNCHANGED <<doc, no_choices, mainVars, findVars, i, scanVars, questions>>

\* Lines 176-188.
AppendQuestion ==
    /\ pc = "assemble"
    /\ choices # <<>>
    /\ questions' = Append(questions,
           question_base(question_elements[i], pre_content)
             @@ [choices |-> choices, answer |-> answer_of(correct_answers)])
    /\ i' = i + 1
    /\ pc' = "loop"
    /\ UNCHANGED <<doc, no_choices, mainVars, findVars, scanVars>>

\* Lines 189-196: a special question.
AppendSpecial ==
    /\ pc = "assemble"
    /\ choices = <<>>
    /\ is_special(clean_text(get_text(Node(question_elements[i]))))
    /\ questions' = Append(questions,
           question_base(question_elements[i], pre_content)
             @@ [type |-> "special", choices |-> <<>>,
                 answer |-> [kind |-> "str", val |-> S_SeeImage]])
    /\ no_choices' = no_choices \cup {get_question_number(question_elements[i])}
    /\ i' = i + 1
    /\ pc' = "loop"
    /\ UNCHANGED <<doc, mainVars, findVars, scanVars>>

\* Lines 189-198: neither choices nor a keyword; nothing is appended.
DropQuestion ==
    /\ pc = "assemble"
    /\ choices = <<>>
    /\ ~is_special(clean_text(get_text(Node(question_elements[i]))))
    /\ no_choices' = no_choices \cup {get_question_number(question_elements[i])}
    /\ i' = i + 1
    /\ pc' = "loop"
    /\ UNCHANGED <<doc, mainVars, findVars, scanVars, questions>>

\* Line 200: extract_quiz_data returns; main goes on at line 301.
ReturnQuestions ==
    /\ pc = "loop"
    /\ i > Len(question_elements)
    /\ pc' = "mkdir"
    /\ UNCHANGED <<doc, mainVars, extractVars>>

\* Line 308 raises: nothing catches it, and the interpreter ends with status 1.
MkdirFails ==
    /\ pc = "mkdir"
    /\ Exit1
    /\ UNCHANGED <<doc, argc, exists, was_read, written, extractVars>>

MkdirOk ==
    /\ pc = "mkdir"
    /\ pc' = "write"
    /\ UNCHANGED <<doc, mainVars, extractVars>>

\* Lines 312-321.
WriteFails ==
    /\ pc = "write"
    /\ Exit1
    /\ UNCHANGED <<doc, argc, exists, was_read, written, extractVars>>

WriteOk ==
    /\ pc = "write"
    /\ written' = TRUE
    /\ pc' = "validate"
    /\ UNCHANGED <<doc, argc, exists, was_read, exit_code, extractVars>>

\* Lines 324-330.
Validate ==
    /\ pc = "validate"
    /\ exit_code' = exit_after_validation(validate_questions(questions))
    /\ pc' = "exit"
    /\ UNCHANGED <<doc, argc, exists, was_read, written, extractVars>>

Next ==
    \/ UsageExit \/ ArgsOk \/ MissingFile \/ FileExists \/ ReadFails \/ ReadOk
    \/ PassA \/ PassADone \/ PassB \/ SortElements
    \/ StartQuestion \/ ScanUl \/ ScanNewQuestion \/ ScanParagraph \/ ScanPre
    \/ ScanOther \/ ScanExhausted
    \/ AppendQuestion \/ AppendSpecial \/ DropQuestion \/ ReturnQuestions
    \/ MkdirFails \/ MkdirOk \/ WriteFails \/ WriteOk \/ Validate

Spec == Init /\ [][Next]_vars

\* ------------------------------------------------------------------ claims

\* A question anchor: a strong or b tag whose stripped text matches the pattern.
IsAnchor(path) ==
    Node(path).name \in {"strong", "b"} /\ question_pattern(tag_text(path))

\* The anchors of the document, in document order.
Anchors == SelectSeq(find_all(<<>>, {"strong", "b"}), IsAnchor)

\* The numeric index that prefixes a record's question text.
RecordIndex(record) == q_num_of(record.question)

\* The records of the output whose index is n.
RecordsOf(n) == SelectSeq(questions, LAMBDA r : RecordIndex(r) = n)

\* The question whose scan has just been assembled.
JustAssembled == pc = "loop" /\ i > 1

\* C1: the records are strictly ascending by the numeric index that prefixes
\* their question text, so no index occurs twice, whatever the order of the
\* anchors in the document and whichever questions were dropped.
C1_AscendingIndices ==
    \A a, b \in 1..Len(questions) :
        a < b => RecordIndex(questions[a]) < RecordIndex(questions[b])

\* C1 witness: two records came out although their anchors stand in the
\* opposite order in the document, and another question was dropped.
C1_Witness ==
    /\ pc = "mkdir"
    /\ Len(questions) >= 2
    /\ Len(questions) < Len(question_elements)
    /\ \E a, b \in 1..Len(question_elements) :
          /\ a < b
          /\ question_elements[a][1] > question_elements[b][1]
          /\ RecordsOf(get_question_number(question_elements[a])) # <<>>
          /\ RecordsOf(get_question_number(question_elements[b])) # <<>>

\* The items of the list the scan ended at whose normalized text is not empty.
CapturedItems ==
    SelectSeq(find_all(visited[Len(visited)], {"li"}),
              LAMBDA li : clean_text(get_text(Node(li))) # <<>>)

\* Their normalized texts, for those marked correct.
MarkedTexts ==
    LET marked == SelectSeq(CapturedItems, is_correct)
    IN  [k \in 1..Len(marked) |-> clean_text(get_text(Node(marked[k])))]

\* C2: when the scan captured at least one non-empty choice, the answer is
\* decided by the number k of captured choices marked correct: "Unknown" for
\* k = 0, that choice's normalized text for k = 1, and for k >= 2 the list of
\* the marked choices' normalized texts in the order of the choices.
C2_AnswerByMarkedCount ==
    (JustAssembled /\ choices # <<>>) =>
        LET answer == questions[Len(questions)].answer
            k      == Len(MarkedTexts)
        IN  /\ k = 0 => answer = [kind |-> "str", val |-> S_Unknown]
            /\ k = 1 => answer = [kind |-> "str", val |-> MarkedTexts[1]]
            /\ k >= 2 => answer = [kind |-> "list", val |-> MarkedTexts]

\* C2 witness: a question was appended whose list has two marked choices.
C2_Witness ==
    JustAssembled /\ choices # <<>> /\ Len(MarkedTexts) >= 2

\* The lower-cased normalized question text of a tag holds one of the keywords.
HasKeyword(tag) ==
    \E kw \in Keywords : Contains(Lower(clean_text(get_text(Node(tag)))), kw)

\* C3: a retained anchor whose scan gave no choice has no record in the output
\* when its lower-cased normalized text holds none of the keywords, and else
\* exactly one record: type "special", choices [], answer "See image for the
\* answer".
C3_NoChoices ==
    \A k \in 1..Len(question_elements) :
        LET tag == question_elements[k]
            n   == get_question_number(tag)
        IN  (pc \notin {"passA", "passB"} /\ n \in no_choices) =>
               IF HasKeyword(tag)
               THEN /\ Len(RecordsOf(n)) = 1
                    /\ "type" \in DOMAIN RecordsOf(n)[1]
                    /\ RecordsOf(n)[1].type = "special"
                    /\ RecordsOf(n)[1].choices = <<>>
                    /\ RecordsOf(n)[1].answer = [kind |-> "str", val |-> S_SeeImage]
               ELSE RecordsOf(n) = <<>>

\* C3 witness: the output is complete, one question without choices was
\* dropped and another one, with a keyword in capitals, became a special record.
C3_Witness ==
    /\ pc = "exit"
    /\ written
    /\ \E a, b \in 1..Len(question_elements) :
          /\ get_question_number(question_elements[a]) \in no_choices
          /\ get_question_number(question_elements[b]) \in no_choices
          /\ ~HasKeyword(question_elements[a])
          /\ HasKeyword(question_elements[b])
          /\ clean_text(get_text(Node(question_elements[b])))
                # Lower(clean_text(get_text(Node(question_elements[b]))))

\* C4: main ends with exit code 0 exactly when the argument count was right,
\* the file existed and was read, the output was written and validation found
\* no error; every other run ends with 1; validation runs only once the output
\* is written, and a record answered "Unknown" makes the run end with 1.
C4_ExitCode ==
    /\ pc = "validate" => written
    /\ pc # "exit" => exit_code = -1
    /\ pc = "exit" =>
          /\ exit_code \in {0, 1}
          /\ exit_code = 0 <=>
                (argc = 2 /\ exists /\ was_read /\ written
                   /\ \A k \in 1..Len(questions) : question_errors(questions[k]) = <<>>)
          /\ (\E k \in 1..Len(questions) :
                 questions[k].answer = [kind |-> "str", val |-> S_Unknown])
             => exit_code = 1

\* C4 witness: a run that wrote a regular question and a special one and ended
\* with exit code 0.
C4_Witness ==
    /\ pc = "exit"
    /\ exit_code = 0
    /\ \E a, b \in 1..Len(questions) :
          questions[a].choices # <<>> /\ questions[b].choices = <<>>

\* The node is, or contains, the anchor of a retained question.
HoldsQuestion(path) ==
    \E k \in 1..Len(question_elements) :
        LET tag == question_elements[k]
        IN  Len(tag) >= Len(path) /\ SubSeq(tag, 1, Len(path)) = path

\* Position in `visited` of the first examined node that is or holds the anchor
\* of a retained question, Len(visited) + 1 if there is none.
FirstAnchorVisited ==
    IF \E k \in 1..Len(visited) : HoldsQuestion(visited[k])
    THEN CHOOSE k \in 1..Len(visited) :
            HoldsQuestion(visited[k]) /\ \A h \in 1..(k - 1) : ~HoldsQuestion(visited[h])
    ELSE Len(visited) + 1

\* Positions in `visited` of the nodes the scan took content from: the ul that
\* gave the choices, and the pre that pre_content was captured from.
SourcesVisited ==
    { k \in 1..Len(visited) :
        \/ Node(visited[k]).name = "ul" /\ choices # <<>>
        \/ /\ Node(visited[k]).name = "pre"
           /\ truthy(pre_content)
           /\ pre_text(get_text(Node(visited[k]))) # <<>>
           /\ \A h \in 1..(k - 1) :
                 Node(visited[h]).name = "pre" =>
                     pre_text(get_text(Node(visited[h]))) = <<>> }

\* C5: the choices and the pre block of a question come only from nodes that
\* lie before the next node, in the sibling sequence the scan walks, that is or
\* contains a question anchor.
C5_StopsAtNextAnchor ==
    \A k \in SourcesVisited : k < FirstAnchorVisited

\* Some strong or b tag below the node has a text that matches the pattern.
AnyMatchBelow(path) ==
    \E k \in 1..Len(find_all(path, {"strong", "b"})) :
        question_pattern(tag_text(find_all(path, {"strong", "b"})[k]))

\* C6: a paragraph with any strong or b descendant whose text matches the
\* anchor pattern ends the scan that reaches it: it is the last node examined,
\* and the scan does not go on after it.
C6_AnyMatchEndsScan ==
    \A k \in 1..Len(visited) :
        (Node(visited[k]).name = "p" /\ AnyMatchBelow(visited[k])) =>
            (k = Len(visited) /\ pc # "scan")

\* The question number of each tag of seq, -1 for a tag that is no anchor.
NumbersOf(seq) ==
    [k \in 1..Len(seq) |-> IF IsAnchor(seq[k]) THEN get_question_number(seq[k]) ELSE -1]

\* The anchors among the first n tags of seq, each kept only if no earlier
\* anchor has its number: what meeting those tags in order retains.
FirstMet(seq, num, n) ==
    LET keep == SelectSeq([k \in 1..n |-> k],
                          LAMBDA k : num[k] # -1 /\ \A h \in 1..(k - 1) : num[h] # num[k])
    IN  [k \in 1..Len(keep) |-> seq[keep[k]]]

\* C7: anchor discovery keeps one anchor per question number, the first met
\* when pass (a) goes over every strong/b tag in document order before pass (b)
\* starts; pass (b) replaces none of them and adds an anchor only for a number
\* pass (a) did not see (there is none left), and sorting keeps the same anchors.
C7_FirstFoundKept ==
    was_read =>
        LET tags    == find_all(<<>>, {"strong", "b"})
            num     == NumbersOf(tags)
            kept    == FirstMet(tags, num, Len(tags))
            numbers == { num[k] : k \in 1..Len(tags) } \ {-1}
        IN  /\ pc = "passA" => question_elements = FirstMet(tags, num, pos - 1)
            /\ pc = "passB" => question_elements = kept
            /\ pc # "passA" =>
                  /\ { question_elements[k] : k \in 1..Len(question_elements) }
                        = { kept[k] : k \in 1..Len(kept) }
                  /\ Len(question_elements) = Cardinality(numbers)
                  /\ seen_questions = numbers

\* C7 witness: pass (b) has gone over a paragraph of a document in which two
\* anchors carry the same number, and one anchor per number is retained.
C7_Witness ==
    /\ pc = "passB"
    /\ pos > 1
    /\ Len(Anchors) > Len(question_elements)
    /\ question_elements # <<>>

\* The pre nodes the scan has examined, in order.
PresVisited == SelectSeq(visited, LAMBDA v : Node(v).name = "pre")

\* C8: once the scan has examined a pre node, pre_content is what that first
\* pre node gave (possibly nothing, when it holds only blank lines) and no
\* later pre node changes it.
C8_FirstPreOnly ==
    PresVisited # <<>> =>
        pre_content = [set |-> TRUE, val |-> pre_text(get_text(Node(PresVisited[1])))]

\* The normalized texts of the items of a ul that are not empty.
ItemTexts(ul) ==
    LET kept == SelectSeq(find_all(ul, {"li"}),
                          LAMBDA li : clean_text(get_text(Node(li))) # <<>>)
    IN  [k \in 1..Len(kept) |-> clean_text(get_text(Node(kept[k])))]

\* C9: the first ul a scan meets ends it: it is the last node examined, the
\* scan stays on it, and the choices are the non-empty items of that list
\* alone; when all its items are empty the question counts as having no
\* choices. Without a ul there are no choices.
C9_FirstListEndsScan ==
    /\ \A k \in 1..Len(visited) :
          Node(visited[k]).name = "ul" =>
              /\ k = Len(visited)
              /\ pc # "scan"
              /\ current_element = visited[k]
              /\ choices = ItemTexts(visited[k])
              /\ (JustAssembled /\ ItemTexts(visited[k]) = <<>>) =>
                     get_question_number(question_elements[i - 1]) \in no_choices
    /\ (\A k \in 1..Len(visited) : Node(visited[k]).name # "ul") => choices = <<>>

\* C9 witness: a question was assembled whose first list has only empty items
\* and is followed by a sibling list with items.
C9_Witness ==
    /\ JustAssembled
    /\ visited # <<>>
    /\ Node(visited[Len(visited)]).name = "ul"
    /\ ItemTexts(visited[Len(visited)]) = <<>>
    /\ find_next_sibling(visited[Len(visited)]) # None
    /\ Node(find_next_sibling(visited[Len(visited)])).name = "ul"
    /\ ItemTexts(find_next_sibling(visited[Len(visited)])) # <<>>

\* The two shapes of a record.
RegularShape(r) ==
    /\ "type" \notin DOMAIN r
    /\ r.choices # <<>>
    /\ \/ r.answer = [kind |-> "str", val |-> S_Unknown]
       \/ r.answer.kind = "str" /\ InSeq(r.answer.val, r.choices)
       \/ /\ r.answer.kind = "list"
          /\ Len(r.answer.val) >= 2
          /\ \A k \in 1..Len(r.answer.val) : InSeq(r.answer.val[k], r.choices)

SpecialShape(r) ==
    /\ "type" \in DOMAIN r
    /\ r.type = "special"
    /\ r.choices = <<>>
    /\ r.answer = [kind |-> "str", val |-> S_SeeImage]

\* C10: every record has choices and answer and is either regular (no type,
\* choices not empty, answer "Unknown" or one of the choices or a list of two
\* or more of them) or special; validation reports neither "Answer not in
\* choices" nor "Has choices but no answer key" on it.
C10_RecordShapes ==
    \A k \in 1..Len(questions) :
        LET r == questions[k]
        IN  /\ {"question", "choices", "answer"} \subseteq DOMAIN r
            /\ RegularShape(r) \/ SpecialShape(r)
            /\ ~InSeq("Answer not in choices", question_errors(r))
            /\ ~InSeq("Has choices but no answer key", question_errors(r))

\* C10 witness: the output holds a special record, a record answered by a list
\* and validation has run on it.
C10_Witness ==
    /\ pc = "exit"
    /\ written
    /\ \E a, b \in 1..Len(questions) :
          /\ SpecialShape(questions[a])
          /\ RegularShape(questions[b])
          /\ questions[b].answer.kind = "list"

====
